---- MODULE Spec2Model ----
(***************************************************************************)
(* Model of the local knowledge index of ShadowPrompt:                     *)
(* src/shadow_prompt/src/knowledge/rag.rs (RagSystem: get_files_to_embed,  *)
(* ingest, query, cosine_similarity) and its caller knowledge/mod.rs.      *)
(*                                                                         *)
(* One indexing task (ingest, re-runnable) and NumQueries query tasks run  *)
(* on a multi-threaded runtime (main.rs:67) and share the snapshot file    *)
(* and the RwLock-guarded cached_index.                                    *)
(***************************************************************************)
EXTENDS Integers, Sequences, FiniteSets, TLC

(* ------------------------------ bounds --------------------------------- *)
MaxTime == 2          \* modification times are 1..MaxTime (seconds)
MaxPasses == 2        \* ingest() calls per behaviour of the indexer alone
MaxRacingPasses == 1  \* ingest() calls per behaviour when queries race with them
NumQueries == 2       \* query() calls per behaviour
MaxFsChanges == 1     \* edits of the knowledge folder per behaviour
Scale == 10           \* fixed-point unit of a similarity score: 1.0 = Scale
MaxDocs == 3          \* documents of a snapshot the queries are run against

(* ------------------------------ values --------------------------------- *)
None == [some |-> FALSE]
Some(v) == [some |-> TRUE, val |-> v]

\* rag.rs:12-19
Document(id, path, content, embedding, last_modified) ==
    [id |-> id, path |-> path, content |-> content,
     embedding |-> embedding, last_modified |-> last_modified]

\* rag.rs:21-24
RagIndex(docs) == [documents |-> docs]

\* Result<T>: Ok(v) or Err(why)
Ok(v) == [kind |-> "ok", val |-> v, why |-> ""]
Err(why) == [kind |-> "err", val |-> 0, why |-> why]
NotReturned == [kind |-> "none", val |-> 0, why |-> ""]
\* the same for Result<Vec<String>>
QErr(why) == [kind |-> "err", val |-> <<>>, why |-> why]
QNotReturned == [kind |-> "none", val |-> <<>>, why |-> ""]

Min(a, b) == IF a <= b THEN a ELSE b

(* --------------------------- the embedding model ----------------------- *)
\* The provider is a function text -> vector of its output dimension.
\* The texts of the model: file contents "c1", "c2", the query text "q" and
\* a text "z" that the provider maps to the zero vector.
Embed(text) ==
    CASE text = "c1" -> <<2, 0>>
      [] text = "c2" -> <<1, 1>>
      [] text = "q"  -> <<-1, 1>>
      [] OTHER       -> <<0, 0>>

\* The provider's output dimension.
Dim == Len(Embed("c1"))

QueryTexts == {"c1", "c2", "q", "z"}

(* --------------------------- the knowledge folder ---------------------- *)
\* Two files under the root: one at top level, one in a sub-folder.
ScanPaths == <<"a.md", "s/b.txt">>
Paths == {ScanPaths[i] : i \in 1..Len(ScanPaths)}

IsMd(p) == p = "a.md"
TopLevel(p) == p = "a.md"

\* A file of the folder.  status: "ok", "unreadable" (read_to_string fails),
\* "nometa" (fs::metadata or modified() fails), "absent".
Absent == [status |-> "absent", content |-> "", mtime |-> 0]
Contents == {" ", "c1", "c2"}
Times == 1..MaxTime
Files ==
    {Absent} \cup
    [status : {"ok"}, content : Contents, mtime : Times] \cup
    [status : {"unreadable", "nometa"}, content : {"c1"}, mtime : {1}]

\* str::trim on the contents of the model: " " is whitespace only.
Trim(c) == IF c = " " THEN "" ELSE c

\* rag.rs:93-98: the four glob patterns, in order.
Patterns == <<"*.md", "*.txt", "**/*.md", "**/*.txt">>

\* glob(): does pattern pat match path p ("**" matches zero or more folders)
Matches(pat, p) ==
    CASE pat = "*.md"     -> IsMd(p) /\ TopLevel(p)
      [] pat = "*.txt"    -> ~IsMd(p) /\ TopLevel(p)
      [] pat = "**/*.md"  -> IsMd(p)
      [] pat = "**/*.txt" -> ~IsMd(p)

\* The entries one pattern yields over folder f, in path order.
RECURSIVE GlobOne(_, _, _)
GlobOne(pat, f, k) ==
    IF k > Len(ScanPaths) THEN <<>>
    ELSE LET p == ScanPaths[k]
             rest == GlobOne(pat, f, k + 1)
         IN IF f[p].status # "absent" /\ Matches(pat, p) THEN <<p>> \o rest ELSE rest

\* rag.rs:102-103: all entries of all patterns, in iteration order.
RECURSIVE GlobAll(_, _)
GlobAll(f, k) ==
    IF k > Len(Patterns) THEN <<>>
    ELSE GlobOne(Patterns[k], f, 1) \o GlobAll(f, k + 1)

(* --------------------------- the snapshot file ------------------------- *)
\* kind: "absent" (no file), "garbage" (unreadable, unparseable, truncated
\* or partially written text), "json" (a serialized RagIndex).
NoFile == [kind |-> "absent", documents |-> <<>>]
Garbage == [kind |-> "garbage", documents |-> <<>>]

\* rag.rs:199: serde_json::to_string_pretty(&index)
Serialize(index) == [kind |-> "json", documents |-> index.documents]

\* rag.rs:77-79, 246-251: exists() + read_to_string + serde_json::from_str
ReadIndexFile(file) ==
    IF file.kind = "json" THEN Some(RagIndex(file.documents)) ELSE None

\* rag.rs:76-86: existing_docs, a HashMap keyed by path; a later record of
\* the same path replaces an earlier one.
ExistingDocs(file) ==
    LET r == ReadIndexFile(file)
        docs == IF r.some THEN r.val.documents ELSE <<>>
        keys == {docs[i].path : i \in 1..Len(docs)}
    IN [p \in keys |->
          docs[CHOOSE i \in 1..Len(docs) :
                  /\ docs[i].path = p
                  /\ \A j \in 1..Len(docs) : docs[j].path = p => j <= i]]

\* The comparison of rag.rs:117 inverted.
ReusableWhenChanged(existing, p, modified) ==
    /\ p \in DOMAIN existing
    /\ existing[p].last_modified # modified

\* rag.rs:116 without the comparison of rag.rs:117.
ReusableByPath(existing, p, modified) == p \in DOMAIN existing

\* rag.rs:115-121: the previous Document is reused when its path is known
\* and its last_modified equals the file's modification time.
Reusable(existing, p, modified) ==
    /\ p \in DOMAIN existing
    /\ existing[p].last_modified = modified

\* rag.rs:124: fs::read_to_string(&path).unwrap_or_default()
ReadContent(file) == IF file.status = "ok" THEN file.content ELSE ""

\* rag.rs:125 without the test.
EmbeddableAlways(content) == TRUE

\* rag.rs:125: only a file whose trimmed content is non-empty is embedded.
Embeddable(content) == Trim(content) # ""

\* rag.rs:107 answering that no path was seen before.
AlreadyFoundNever(found, p) == FALSE

\* rag.rs:107: found_paths.contains(&path_str)
AlreadyFound(found, p) == p \in found

\* rag.rs:104-131: one glob entry.  acc = [found, final, to_embed, err].
ScanEntry(p, f, existing, acc) ==
    IF AlreadyFound(acc.found, p) THEN acc
    ELSE
      LET found1 == acc.found \cup {p} IN
      IF f[p].status = "nometa"
      THEN [acc EXCEPT !.found = found1, !.err = TRUE]
      ELSE
        LET modified == f[p].mtime IN
        IF Reusable(existing, p, modified)
        THEN [acc EXCEPT !.found = found1,
                         !.final = Append(acc.final, existing[p])]
        ELSE
          LET content == ReadContent(f[p]) IN
          IF Embeddable(content)
          THEN [acc EXCEPT !.found = found1,
                           !.to_embed = Append(acc.to_embed,
                               [path |-> p, content |-> content, modified |-> modified])]
          ELSE [acc EXCEPT !.found = found1]

\* rag.rs:102-133: the loop over the entries; `?` at rag.rs:112-113 returns
\* the error at once.
RECURSIVE ScanFrom(_, _, _, _, _)
ScanFrom(entries, k, f, existing, acc) ==
    IF k > Len(entries) \/ acc.err THEN acc
    ELSE ScanFrom(entries, k + 1, f, existing, ScanEntry(entries[k], f, existing, acc))

\* rag.rs:77-86 with an unreadable or unparseable snapshot file made an error.
GetFilesToEmbedStrict(f, file) ==
    IF file.kind = "garbage"
    THEN [found |-> {}, final |-> <<>>, to_embed |-> <<>>, err |-> TRUE]
    ELSE ScanFrom(GlobAll(f, 1), 1, f, ExistingDocs(file),
                  [found |-> {}, final |-> <<>>, to_embed |-> <<>>, err |-> FALSE])

\* rag.rs:70-136
GetFilesToEmbed(f, file) ==
    ScanFrom(GlobAll(f, 1), 1, f, ExistingDocs(file),
             [found |-> {}, final |-> <<>>, to_embed |-> <<>>, err |-> FALSE])

(* --------------------------- scoring ----------------------------------- *)
\* rag.rs:299: a.iter().zip(b).map(|(x, y)| x * y).sum()
RECURSIVE DotFrom(_, _, _)
DotFrom(a, b, k) ==
    IF k > Min(Len(a), Len(b)) THEN 0 ELSE a[k] * b[k] + DotFrom(a, b, k + 1)

\* rag.rs:300-301: sum of squares
RECURSIVE SumSqFrom(_, _)
SumSqFrom(a, k) == IF k > Len(a) THEN 0 ELSE a[k] * a[k] + SumSqFrom(a, k + 1)

\* Integer square root: the largest r with r * r <= n.
RECURSIVE ISqrtFrom(_, _)
ISqrtFrom(n, r) == IF (r + 1) * (r + 1) > n THEN r ELSE ISqrtFrom(n, r + 1)

\* sqrt() in fixed point: the norm of a in units of 1/Scale.
Norm(a) == ISqrtFrom(SumSqFrom(a, 1) * Scale * Scale, 0)

\* Division rounding toward zero.
TDiv(a, b) == IF a >= 0 THEN a \div b ELSE -((-a) \div b)

\* rag.rs:302-304 returning 1.0 for a vector of zero magnitude.
cosine_similarityOneWhenZero(a, b) ==
    LET dot_product == DotFrom(a, b, 1)
        norm_a == Norm(a)
        norm_b == Norm(b)
    IN IF norm_a = 0 \/ norm_b = 0 THEN Scale
       ELSE TDiv(dot_product * Scale * Scale * Scale, norm_a * norm_b)

\* rag.rs:298-308, in fixed point: a score s stands for s / Scale.
cosine_similarity(a, b) ==
    LET dot_product == DotFrom(a, b, 1)
        norm_a == Norm(a)
        norm_b == Norm(b)
    IN IF norm_a = 0 \/ norm_b = 0 THEN 0
       ELSE TDiv(dot_product * Scale * Scale * Scale, norm_a * norm_b)

\* rag.rs:279-282
Scores(index, query_vec) ==
    [i \in 1..Len(index.documents) |->
        [score |-> cosine_similarity(query_vec, index.documents[i].embedding),
         doc |-> index.documents[i]]]

\* An ordering that puts a later element ahead of an earlier equal one.
BeforeOrEqual(x, y) == x.score >= y.score

\* rag.rs:285: b.0.partial_cmp(&a.0): x sorts before y when x's score is greater.
Before(x, y) == x.score > y.score

\* Insert x into the sorted sequence s behind every element that is not after it.
RECURSIVE InsertSorted(_, _, _)
InsertSorted(s, x, k) ==
    IF k > Len(s) THEN Append(s, x)
    ELSE IF Before(x, s[k])
         THEN SubSeq(s, 1, k - 1) \o <<x>> \o SubSeq(s, k, Len(s))
         ELSE InsertSorted(s, x, k + 1)

\* rag.rs:285: slice::sort_by, a stable sort.
RECURSIVE SortFrom(_, _, _)
SortFrom(s, k, acc) ==
    IF k > Len(s) THEN acc ELSE SortFrom(s, k + 1, InsertSorted(acc, s[k], 1))

SortByScore(s) == SortFrom(s, 1, <<>>)

\* rag.rs:289: .filter(|(score, _)| *score >= min_score)
RECURSIVE FilterFrom(_, _, _)
FilterFrom(s, min_score, k) ==
    IF k > Len(s) THEN <<>>
    ELSE IF s[k].score >= min_score
         THEN <<s[k]>> \o FilterFrom(s, min_score, k + 1)
         ELSE FilterFrom(s, min_score, k + 1)

\* rag.rs:290: .take(max_results)
Take(s, n) == SubSeq(s, 1, Min(n, Len(s)))

\* rag.rs:279-292: the scored, sorted, filtered and truncated list.
Ranked(index, query_vec, max_results, min_score) ==
    Take(FilterFrom(SortByScore(Scores(index, query_vec)), min_score, 1), max_results)

\* rag.rs:291: .map(|(_, doc)| doc.content.clone())
ContentsOf(s) == [i \in 1..Len(s) |-> s[i].doc.content]

(* --------------------------- state -------------------------------------- *)
VARIABLES
    enabled,        \* config.rag.enabled
    is_operational, \* RagSystem.is_operational (embedding_model is Some iff TRUE)
    init_error,     \* RagSystem.init_error
    max_results,    \* config.rag.max_results
    min_score,      \* config.rag.min_score, in units of 1/Scale
    root_exists,    \* the knowledge root folder exists
    fs,             \* the files of the knowledge folder: path -> file
    fs_changes,     \* edits of the folder so far
    max_passes,     \* the ingest() calls the behaviour may make
    disk,           \* the snapshot file
    cached_index,   \* RagSystem.cached_index: None or Some(RagIndex)
    readers,        \* the queries holding the read lock of cached_index
    next_id,        \* the next fresh uuid
    ipc,            \* position of the ingest task
    passes,         \* ingest() calls started so far
    i_found,        \* found_paths of the current or last pass
    i_final,        \* final_docs as returned by get_files_to_embed (the reused documents)
    i_to_embed,     \* docs_to_embed of the current or last pass
    i_docs,         \* final_docs after the embedding loop: the documents of the new index
    i_batches,      \* the batches the pass handed to the embedding provider
    i_disk0,        \* the snapshot file as the pass found it
    i_cache0,       \* cached_index as the pass found it
    i_fs0,          \* the knowledge folder as the pass found it
    i_scan,         \* how get_files_to_embed ended: "none", "ok", "err"
    i_reply,        \* the provider's answer to the pass's embed call: "none", "ok", "err"
    i_write,        \* how far fs::write got: "none", "open_failed", "truncated",
                    \* "failed", "written"
    prev,           \* the previous ingest() call: its outcome, folder and documents
    i_out,          \* what the last ingest() call returned
    cache_by,       \* who wrote cached_index last
    pub,            \* the last index an ingest() pass published, and the pass
    qpc,            \* position of each query task
    q_text,         \* the query text
    q_loaded,       \* the index a query's lazy load parsed from the snapshot file
    q_index,        \* the index a query found behind its read guard
    q_embeds,       \* embedding-provider calls of each query
    q_reply,        \* the provider's answer to the query's embed call: "none", "ok", "err"
    q_pub0,         \* the number of the last completed publishing pass when the query started
    q_scores,       \* the (score, document) list a query returned from
    q_out           \* what each query() call returned

\* what a pass sets when it begins, and the rest of the task's state
ibegin == <<passes, i_disk0, i_cache0, i_fs0, i_batches, i_reply, i_write, prev>>
ilocals == <<i_found, i_final, i_to_embed, i_docs, i_scan>>
ivars == <<ipc, ibegin, ilocals, i_out>>
qvars == <<qpc, q_text, q_loaded, q_index, q_embeds, q_reply, q_pub0, q_scores, q_out>>
cfgvars == <<enabled, is_operational, init_error, max_results, min_score>>
fsvars == <<root_exists, fs, fs_changes, max_passes>>
shared == <<disk, cached_index, readers, cache_by, pub>>
vars == <<cfgvars, fsvars, shared, next_id, ivars, qvars>>

Queries == 1..NumQueries

\* config.rs:342: min_score defaults to 0.5
DefaultMinScore == Scale \div 2

(* --------------------------- initial states ---------------------------- *)
\* Snapshot files a previous run may have left behind.
\* rag.rs:389-406: the snapshot of test_rag_incremental_logic: empty
\* embeddings, one record of a file that is gone.
StaleSnapshot ==
    Serialize(RagIndex(<<
        Document(101, "a.md", "c1", <<>>, 1),
        Document(102, "gone.txt", "c2", <<>>, 2)>>))

\* A snapshot of embedded documents, more than max_results of them, two
\* with the same embedding.
FullSnapshot ==
    Serialize(RagIndex(<<
        Document(101, "a.md", "c1", Embed("c1"), 1),
        Document(102, "s/b.txt", "c2", Embed("c2"), 1),
        Document(103, "gone.txt", "c1", Embed("c1"), 1),
        Document(104, "old.md", "c2", Embed("c2"), 1)>>))

\* A snapshot holding two records of one path.
DupSnapshot ==
    Serialize(RagIndex(<<
        Document(101, "a.md", "c1", Embed("c1"), 1),
        Document(102, "a.md", "c2", Embed("c2"), 2)>>))

EmptySnapshot == Serialize(RagIndex(<<>>))

InitSnapshots ==
    {NoFile, Garbage, EmptySnapshot, StaleSnapshot, FullSnapshot, DupSnapshot}

File(content, mtime) == [status |-> "ok", content |-> content, mtime |-> mtime]

EmptyFolder == [p \in Paths |-> Absent]
OneFile == [p \in Paths |-> IF p = "a.md" THEN File("c1", 1) ELSE Absent]
TwoFiles == [p \in Paths |-> IF p = "a.md" THEN File("c1", 1) ELSE File("c2", 1)]

\* config.rs:341: max_results defaults to 3
DefaultMaxResults == 3

\* The state RagSystem::new leaves (rag.rs:35-59), but for the environment:
\* the configuration, the knowledge folder and the snapshot file.
InitSystem ==
    /\ init_error = IF is_operational THEN None ELSE Some("init failed")
    /\ fs_changes = 0
    /\ cached_index = None
    /\ readers = {}
    /\ next_id = 1
    /\ ipc = "idle"
    /\ passes = 0
    /\ i_found = {}
    /\ i_final = <<>>
    /\ i_to_embed = <<>>
    /\ i_docs = <<>>
    /\ i_batches = <<>>
    /\ i_disk0 = disk
    /\ i_cache0 = None
    /\ i_fs0 = fs
    /\ i_scan = "none"
    /\ i_reply = "none"
    /\ i_write = "none"
    /\ prev = [out |-> NotReturned, scan |-> "none", fs0 |-> fs, docs |-> <<>>]
    /\ i_out = NotReturned
    /\ cache_by = "none"
    /\ pub = [n |-> 0, index |-> RagIndex(<<>>)]
    /\ qpc = [q \in Queries |-> "idle"]
    /\ q_text = [q \in Queries |-> ""]
    /\ q_loaded = [q \in Queries |-> RagIndex(<<>>)]
    /\ q_index = [q \in Queries |-> None]
    /\ q_embeds = [q \in Queries |-> 0]
    /\ q_reply = [q \in Queries |-> "none"]
    /\ q_pub0 = [q \in Queries |-> 0]
    /\ q_scores = [q \in Queries |-> <<>>]
    /\ q_out = [q \in Queries |-> QNotReturned]

\* The running application: the startup pass and the queries race.
Init ==
    /\ enabled \in BOOLEAN
    /\ is_operational \in BOOLEAN
    /\ max_results = DefaultMaxResults
    /\ min_score = DefaultMinScore
    /\ root_exists \in BOOLEAN
    /\ fs \in IF root_exists THEN {EmptyFolder, TwoFiles} ELSE {EmptyFolder}
    /\ disk \in {NoFile, EmptySnapshot, FullSnapshot}
    /\ max_passes = MaxRacingPasses
    /\ InitSystem

\* The indexer alone, over every snapshot and a range of folders.
InitIndexer ==
    /\ enabled \in BOOLEAN
    /\ is_operational \in BOOLEAN
    /\ max_results = DefaultMaxResults
    /\ min_score = DefaultMinScore
    /\ root_exists \in BOOLEAN
    /\ fs \in IF root_exists THEN {EmptyFolder, OneFile, TwoFiles} ELSE {EmptyFolder}
    /\ disk \in InitSnapshots
    /\ max_passes = MaxPasses
    /\ InitSystem

\* Snapshots for the queries: up to MaxDocs documents, each with one of the
\* vectors below, told apart by their contents.
QueryVectors == {<<2, 0>>, <<1, 1>>, <<-1, 1>>, <<0, 0>>, <<>>, <<1>>}
DocName(i) == "d" \o ToString(i)
QuerySnapshots ==
    UNION {
      { Serialize(RagIndex([i \in 1..n |->
            Document(100 + i, DocName(i), DocName(i), vecs[i], 1)])) :
        vecs \in [1..n -> QueryVectors] } : n \in 1..MaxDocs }

\* The queries alone, against a snapshot left by an earlier run.
InitQuery ==
    /\ enabled \in BOOLEAN
    /\ is_operational = TRUE
    /\ max_results \in 1..DefaultMaxResults
    /\ min_score \in {-Scale, 0, DefaultMinScore}
    /\ root_exists = TRUE
    /\ fs = EmptyFolder
    /\ disk \in QuerySnapshots \cup {NoFile, Garbage, EmptySnapshot}
    /\ max_passes = 0
    /\ InitSystem

(* --------------------------- the environment --------------------------- *)
\* The user edits, adds or removes a file of the knowledge folder.  A pass
\* reads the folder once, in its scan, so edits are taken between passes.
FsChange(p, file) ==
    /\ ipc = "idle"
    /\ passes < max_passes
    /\ fs_changes < MaxFsChanges
    /\ root_exists
    /\ file # fs[p]
    /\ fs' = [fs EXCEPT ![p] = file]
    /\ fs_changes' = fs_changes + 1
    /\ UNCHANGED <<cfgvars, root_exists, max_passes, shared, next_id, ivars, qvars>>

(* --------------------------- ingest() ---------------------------------- *)
\* rag.rs:139 without the is_operational test.
GatedByConfigOnly == ~enabled

\* rag.rs:139, 216-223: the calls do nothing when the feature is disabled or
\* the embedding model failed to initialize.
Gated == ~enabled \/ ~is_operational

\* A call begins with fresh locals; what the call finds is recorded.
BeginPass ==
    /\ ipc = "idle"
    /\ passes < max_passes
    /\ passes' = passes + 1
    /\ prev' = [out |-> i_out, scan |-> i_scan, fs0 |-> i_fs0, docs |-> i_docs]
    /\ i_disk0' = disk
    /\ i_cache0' = cached_index
    /\ i_fs0' = fs
    /\ i_batches' = <<>>
    /\ i_reply' = "none"
    /\ i_write' = "none"

\* rag.rs:139-146
IngestGated ==
    /\ BeginPass
    /\ Gated
    /\ i_out' = Ok(0)
    /\ i_scan' = "none"
    /\ i_found' = {} /\ i_final' = <<>> /\ i_to_embed' = <<>> /\ i_docs' = <<>>
    /\ UNCHANGED <<ipc, cfgvars, fsvars, shared, next_id, qvars>>

\* rag.rs:152-155
IngestCreateRoot ==
    /\ BeginPass
    /\ ~Gated
    /\ ~root_exists
    /\ root_exists' = TRUE
    /\ i_out' = Ok(0)
    /\ i_scan' = "none"
    /\ i_found' = {} /\ i_final' = <<>> /\ i_to_embed' = <<>> /\ i_docs' = <<>>
    /\ UNCHANGED <<ipc, cfgvars, fs, fs_changes, max_passes, shared, next_id, qvars>>

\* rag.rs:169-175 with an empty scan publishing its empty index.
AfterScanPublishWhenEmpty(r) ==
    IF r.err THEN "return_err"
    ELSE IF r.to_embed = <<>> /\ r.final = <<>> THEN "publish"
    ELSE IF r.to_embed # <<>> THEN "embed"
    ELSE "write"

\* rag.rs:169-175 without the early return of rag.rs:171-173.
AfterScanNoEarlyReturn(r) ==
    IF r.err THEN "return_err"
    ELSE IF r.to_embed # <<>> THEN "embed"
    ELSE "write"

\* rag.rs:169-175: where the call goes after get_files_to_embed.
AfterScan(r) ==
    IF r.err THEN "return_err"
    ELSE IF r.to_embed = <<>> /\ r.final = <<>> THEN "return_zero"
    ELSE IF r.to_embed # <<>> THEN "embed"
    ELSE "write"

\* rag.rs:157-175: get_files_to_embed, then the three ways on.
IngestScan ==
    /\ BeginPass
    /\ ~Gated
    /\ root_exists
    /\ LET r == GetFilesToEmbed(fs, disk)
           to == AfterScan(r)
       IN /\ i_found' = r.found
          /\ i_final' = r.final
          /\ i_to_embed' = r.to_embed
          /\ i_docs' = r.final
          /\ i_scan' = IF r.err THEN "err" ELSE "ok"
          /\ ipc' = IF to \in {"return_err", "return_zero"} THEN "idle" ELSE to
          /\ i_out' = CASE to = "return_err" -> Err("scan")
                        [] to = "return_zero" -> Ok(0)
                        [] OTHER -> NotReturned
    /\ UNCHANGED <<cfgvars, fsvars, shared, next_id, qvars>>

\* rag.rs:177 taking the first content only.
TextsFirstOnly(to_embed) == [i \in 1..Min(1, Len(to_embed)) |-> to_embed[i].content]

\* rag.rs:177: the batch of contents
Texts(to_embed) == [i \in 1..Len(to_embed) |-> to_embed[i].content]

\* rag.rs:183 giving every document of the batch the same id.
NewDocsSameId(to_embed, embeddings, first_id) ==
    [i \in 1..Len(embeddings) |->
        Document(first_id, to_embed[i].path, to_embed[i].content,
                 embeddings[i], to_embed[i].modified)]

\* rag.rs:187 without the file's modification time.
NewDocsNoTimestamp(to_embed, embeddings, first_id) ==
    [i \in 1..Len(embeddings) |->
        Document(first_id + i - 1, to_embed[i].path, to_embed[i].content,
                 embeddings[i], 0)]

\* rag.rs:180-189: one Document per returned vector, each with a fresh uuid.
NewDocs(to_embed, embeddings, first_id) ==
    [i \in 1..Len(embeddings) |->
        Document(first_id + i - 1, to_embed[i].path, to_embed[i].content,
                 embeddings[i], to_embed[i].modified)]

\* A provider that returns the vectors in reverse order.
EmbedBatchReversed(texts) == [i \in 1..Len(texts) |-> Embed(texts[Len(texts) + 1 - i])]

\* rag.rs:178: embedding_model.embed(texts, None) returns one vector per text
EmbedBatch(texts) == [i \in 1..Len(texts) |-> Embed(texts[i])]

\* rag.rs:175-189: the embedding call succeeds.
IngestEmbedOk ==
    /\ ipc = "embed"
    /\ i_reply' = "ok"
    /\ LET texts == Texts(i_to_embed)
           embeddings == EmbedBatch(texts)
       IN /\ i_batches' = Append(i_batches, texts)
          /\ i_docs' = i_final \o NewDocs(i_to_embed, embeddings, next_id)
          /\ next_id' = next_id + Len(embeddings)
    /\ ipc' = "write"
    /\ UNCHANGED <<cfgvars, fsvars, shared, passes, i_disk0, i_cache0, i_fs0, i_write,
                   prev, i_found, i_final, i_to_embed, i_scan, i_out, qvars>>

\* rag.rs:178 with the error swallowed: the pass goes on with the reused
\* documents alone.
IngestEmbedFailSwallowed ==
    /\ ipc = "embed"
    /\ i_reply' = "err"
    /\ i_batches' = Append(i_batches, Texts(i_to_embed))
    /\ ipc' = "write"
    /\ UNCHANGED <<cfgvars, fsvars, shared, next_id, passes, i_disk0, i_cache0, i_fs0,
                   i_write, prev, ilocals, i_out, qvars>>

\* rag.rs:178: the embedding call fails and `?` returns the error.
IngestEmbedFail ==
    /\ ipc = "embed"
    /\ i_reply' = "err"
    /\ i_batches' = Append(i_batches, Texts(i_to_embed))
    /\ ipc' = "idle"
    /\ i_out' = Err("embed")
    /\ UNCHANGED <<cfgvars, fsvars, shared, next_id, passes, i_disk0, i_cache0, i_fs0,
                   i_write, prev, ilocals, qvars>>

\* rag.rs:200: fs::write cannot create or open the file.
IngestWriteOpenFail ==
    /\ ipc = "write"
    /\ i_write' = "open_failed"
    /\ ipc' = "idle"
    /\ i_out' = Err("write")
    /\ UNCHANGED <<cfgvars, fsvars, shared, next_id, passes, i_disk0, i_cache0, i_fs0,
                   i_batches, i_reply, prev, ilocals, qvars>>

\* rag.rs:200: fs::write opens the file, which truncates it.
IngestWriteTruncate ==
    /\ ipc = "write"
    /\ i_write' = "truncated"
    /\ disk' = Garbage
    /\ ipc' = "write_all"
    /\ UNCHANGED <<cfgvars, fsvars, cached_index, readers, cache_by, pub, next_id,
                   passes, i_disk0, i_cache0, i_fs0, i_batches, i_reply, prev, ilocals,
                   i_out, qvars>>

\* rag.rs:200: fs::write writes all the bytes.
IngestWriteAllOk ==
    /\ ipc = "write_all"
    /\ i_write' = "written"
    /\ disk' = Serialize(RagIndex(i_docs))
    /\ ipc' = "publish"
    /\ UNCHANGED <<cfgvars, fsvars, cached_index, readers, cache_by, pub, next_id,
                   passes, i_disk0, i_cache0, i_fs0, i_batches, i_reply, prev, ilocals,
                   i_out, qvars>>

\* rag.rs:200 with the error of the write ignored: the pass goes on to publish.
IngestWriteAllFailIgnored ==
    /\ ipc = "write_all"
    /\ i_write' = "failed"
    /\ disk' = Garbage
    /\ ipc' = "publish"
    /\ UNCHANGED <<cfgvars, fsvars, cached_index, readers, cache_by, pub, next_id,
                   passes, i_disk0, i_cache0, i_fs0, i_batches, i_reply, prev, ilocals,
                   i_out, qvars>>

\* rag.rs:200: the write fails part-way (disk full, I/O error): the file
\* keeps the bytes written so far.
IngestWriteAllFail ==
    /\ ipc = "write_all"
    /\ i_write' = "failed"
    /\ disk' = Garbage
    /\ ipc' = "idle"
    /\ i_out' = Err("write")
    /\ UNCHANGED <<cfgvars, fsvars, cached_index, readers, cache_by, pub, next_id,
                   passes, i_disk0, i_cache0, i_fs0, i_batches, i_reply, prev, ilocals,
                   qvars>>

\* The write lock held from the scan to the end of the pass.
WriteLockedFromScan == ipc # "idle"

\* rag.rs:205-208: ingest() holds the write guard of cached_index from
\* write().await to the end of the block.  A query's write section
\* (rag.rs:252-253) is a single step of the model.
WriteLocked == ipc = "locked"

\* tokio RwLock::read(): granted when no write guard is held.
CanReadLock == ~WriteLocked

\* A write lock granted while read guards are held.
CanWriteLockAlways == TRUE

\* tokio RwLock::write(): granted when no guard is held.
CanWriteLock == readers = {} /\ ~WriteLocked

\* rag.rs:206: self.cached_index.write().await
IngestLock ==
    /\ ipc = "publish"
    /\ CanWriteLock
    /\ ipc' = "locked"
    /\ UNCHANGED <<cfgvars, fsvars, shared, next_id, ibegin, ilocals, i_out, qvars>>

\* rag.rs:207-212: the value is replaced, the guard dropped, the count returned.
IngestPublish ==
    /\ ipc = "locked"
    /\ cached_index' = Some(RagIndex(i_docs))
    /\ cache_by' = "ingest"
    /\ pub' = [n |-> passes, index |-> RagIndex(i_docs)]
    /\ ipc' = "idle"
    /\ i_out' = Ok(Len(i_docs))
    /\ UNCHANGED <<cfgvars, fsvars, disk, readers, next_id, ibegin, ilocals, qvars>>

Ingest ==
    \/ IngestGated
    \/ IngestCreateRoot
    \/ IngestScan
    \/ IngestEmbedOk
    \/ IngestEmbedFail
    \/ IngestWriteOpenFail
    \/ IngestWriteTruncate
    \/ IngestWriteAllOk
    \/ IngestWriteAllFail
    \/ IngestLock
    \/ IngestPublish

(* --------------------------- query() ----------------------------------- *)
\* rag.rs:216-228
\* mod.rs:64-66: the calls of query() are interchangeable; they are numbered
\* in the order in which they begin.
CanBegin(q) ==
    /\ qpc[q] = "idle"
    /\ \A r \in Queries : r < q => qpc[r] # "idle"

QueryGated(q) ==
    /\ CanBegin(q)
    /\ Gated
    /\ qpc' = [qpc EXCEPT ![q] = "done"]
    /\ q_out' = [q_out EXCEPT ![q] = Ok(<<>>)]
    /\ q_pub0' = [q_pub0 EXCEPT ![q] = pub.n]
    /\ UNCHANGED <<cfgvars, fsvars, shared, next_id, ivars, q_text, q_loaded, q_index,
                   q_embeds, q_reply, q_scores>>

\* rag.rs:232-235: needs_load, read under a read guard that is dropped at once.
NeedsLoad == ~cached_index.some

\* rag.rs:232-235 with the read guard kept after the test.
QueryCheckKeepsGuard(q) ==
    /\ CanBegin(q)
    /\ ~Gated
    /\ CanReadLock
    /\ readers' = readers \cup {q}
    /\ q_pub0' = [q_pub0 EXCEPT ![q] = pub.n]
    /\ qpc' = [qpc EXCEPT ![q] = IF NeedsLoad THEN "load" ELSE "read"]
    /\ UNCHANGED <<cfgvars, fsvars, disk, cached_index, cache_by, pub, next_id, ivars,
                   q_text, q_loaded, q_index, q_embeds, q_reply, q_scores, q_out>>

QueryCheck(q) ==
    /\ CanBegin(q)
    /\ ~Gated
    /\ CanReadLock
    /\ q_pub0' = [q_pub0 EXCEPT ![q] = pub.n]
    /\ qpc' = [qpc EXCEPT ![q] = IF NeedsLoad THEN "load" ELSE "read"]
    /\ UNCHANGED <<cfgvars, fsvars, shared, next_id, ivars, q_text, q_loaded, q_index,
                   q_embeds, q_reply, q_scores, q_out>>

\* rag.rs:237-260: the snapshot file is read and parsed with no lock held.
QueryLoad(q) ==
    /\ qpc[q] = "load"
    /\ LET r == ReadIndexFile(disk) IN
         IF r.some
         THEN /\ q_loaded' = [q_loaded EXCEPT ![q] = r.val]
              /\ qpc' = [qpc EXCEPT ![q] = "lazy_write"]
         ELSE /\ q_loaded' = q_loaded
              /\ qpc' = [qpc EXCEPT ![q] = "read"]
    /\ UNCHANGED <<cfgvars, fsvars, shared, next_id, ivars, q_text, q_index,
                   q_embeds, q_reply, q_pub0, q_scores, q_out>>

\* rag.rs:253 storing None.
LazyValueNone(q) == None

\* rag.rs:252-253: the value the lazy load stores.
LazyValue(q) == Some(q_loaded[q])

QueryLazyWrite(q) ==
    /\ qpc[q] = "lazy_write"
    /\ CanWriteLock
    /\ cached_index' = LazyValue(q)
    /\ cache_by' = "query"
    /\ qpc' = [qpc EXCEPT ![q] = "read"]
    /\ UNCHANGED <<cfgvars, fsvars, disk, readers, pub, next_id, ivars, q_text,
                   q_loaded, q_index, q_embeds, q_reply, q_pub0, q_scores, q_out>>

\* rag.rs:265-268 alone: only a missing index returns early.
NothingToScoreWhenNone(cache) == ~cache.some

\* rag.rs:265-272: no index, or an index without documents.
NothingToScore(cache) == ~cache.some \/ cache.val.documents = <<>>

\* rag.rs:264-272: the read guard is taken; no index, or an index without
\* documents, returns the empty list (and drops the guard).
QueryRead(q) ==
    /\ qpc[q] = "read"
    /\ CanReadLock
    /\ q_index' = [q_index EXCEPT ![q] = cached_index]
    /\ IF NothingToScore(cached_index)
       THEN /\ qpc' = [qpc EXCEPT ![q] = "done"]
            /\ q_out' = [q_out EXCEPT ![q] = Ok(<<>>)]
            /\ readers' = readers
       ELSE /\ qpc' = [qpc EXCEPT ![q] = "embed"]
            /\ q_out' = q_out
            /\ readers' = readers \cup {q}
    /\ UNCHANGED <<cfgvars, fsvars, disk, cached_index, cache_by, pub, next_id, ivars,
                   q_text, q_loaded, q_embeds, q_reply, q_pub0, q_scores>>

\* rag.rs:275 with the error turned into an empty result.
QueryEmbedFailAsEmpty(q, text) ==
    /\ qpc[q] = "embed"
    /\ q_text' = [q_text EXCEPT ![q] = text]
    /\ q_embeds' = [q_embeds EXCEPT ![q] = @ + 1]
    /\ q_reply' = [q_reply EXCEPT ![q] = "err"]
    /\ qpc' = [qpc EXCEPT ![q] = "done"]
    /\ q_out' = [q_out EXCEPT ![q] = Ok(<<>>)]
    /\ readers' = readers \ {q}
    /\ UNCHANGED <<cfgvars, fsvars, disk, cached_index, cache_by, pub, next_id, ivars,
                   q_loaded, q_index, q_pub0, q_scores>>

\* rag.rs:275: the embedding call fails and `?` returns the error; the read
\* guard is dropped.
QueryEmbedFail(q, text) ==
    /\ qpc[q] = "embed"
    /\ q_text' = [q_text EXCEPT ![q] = text]
    /\ q_embeds' = [q_embeds EXCEPT ![q] = @ + 1]
    /\ q_reply' = [q_reply EXCEPT ![q] = "err"]
    /\ qpc' = [qpc EXCEPT ![q] = "done"]
    /\ q_out' = [q_out EXCEPT ![q] = QErr("embed")]
    /\ readers' = readers \ {q}
    /\ UNCHANGED <<cfgvars, fsvars, disk, cached_index, cache_by, pub, next_id, ivars,
                   q_loaded, q_index, q_pub0, q_scores>>

\* rag.rs:275-294: the query is embedded, the documents behind the read guard
\* are scored, and the guard is dropped on return.
QueryEmbedOk(q, text) ==
    /\ qpc[q] = "embed"
    /\ q_text' = [q_text EXCEPT ![q] = text]
    /\ q_embeds' = [q_embeds EXCEPT ![q] = @ + 1]
    /\ q_reply' = [q_reply EXCEPT ![q] = "ok"]
    /\ LET query_vec == Embed(text)
           ranked == Ranked(cached_index.val, query_vec, max_results, min_score)
       IN /\ q_scores' = [q_scores EXCEPT ![q] = ranked]
          /\ q_out' = [q_out EXCEPT ![q] = Ok(ContentsOf(ranked))]
    /\ qpc' = [qpc EXCEPT ![q] = "done"]
    /\ readers' = readers \ {q}
    /\ UNCHANGED <<cfgvars, fsvars, disk, cached_index, cache_by, pub, next_id, ivars,
                   q_loaded, q_index, q_pub0>>

\* The query text is an input of the call, drawn from texts; the code first
\* uses it at rag.rs:275, where the model draws it.
Query(q, texts) ==
    \/ QueryGated(q)
    \/ QueryCheck(q)
    \/ QueryLoad(q)
    \/ QueryLazyWrite(q)
    \/ QueryRead(q)
    \/ \E text \in texts : QueryEmbedFail(q, text)
    \/ \E text \in texts : QueryEmbedOk(q, text)

(* --------------------------- the system -------------------------------- *)
\* The startup pass (and re-runs of it) racing with the queries; what the
\* queries ask does not matter to the race, so they all ask the same.
Next ==
    \/ Ingest
    \/ \E q \in Queries : Query(q, {"c1"})

Spec == Init /\ [][Next]_vars

\* main.rs:67, mod.rs:25-33: the multi-threaded runtime keeps running every
\* task that can take a step, the embedding calls return, and tokio's RwLock
\* grants its waiters in turn.
Fairness ==
    /\ WF_vars(Ingest)
    /\ \A q \in Queries : WF_vars(Query(q, {"c1"}))

SpecFair == Spec /\ Fairness

\* The indexer alone: passes of ingest() with edits of the folder between them.
NextIndexer ==
    \/ \E p \in Paths, file \in Files : FsChange(p, file)
    \/ Ingest

SpecIndexer == InitIndexer /\ [][NextIndexer]_vars

\* One query at a time, over every text.
NextQuery == Query(1, QueryTexts)

SpecQuery == InitQuery /\ [][NextQuery]_vars

(* ======================= properties of the indexer ====================== *)
Elems(s) == {s[i] : i \in 1..Len(s)}
DocsOf(file) == IF file.kind = "json" THEN file.documents ELSE <<>>
CachedDocs == IF cached_index.some THEN cached_index.val.documents ELSE <<>>
Present(f, p) == f[p].status # "absent"
Occurrences(s, x) == Cardinality({i \in 1..Len(s) : s[i] = x})

\* The record a snapshot file keeps under path p: the last one of that path.
HasRecord(file, p) == \E i \in 1..Len(DocsOf(file)) : DocsOf(file)[i].path = p
RecordOf(file, p) ==
    LET docs == DocsOf(file)
        at == {i \in 1..Len(docs) : docs[i].path = p}
    IN docs[CHOOSE i \in at : \A j \in at : j <= i]

\* The files of the pass's folder whose previous record has their modification time.
Unchanged(p) ==
    /\ Present(i_fs0, p)
    /\ HasRecord(i_disk0, p)
    /\ RecordOf(i_disk0, p).last_modified = i_fs0[p].mtime

\* C1: in a pass whose scan succeeded, every scanned file whose path the
\* previous snapshot knows and whose modification time equals the stored
\* last_modified has its previous Document in the new index, unchanged and
\* once; the file is no entry of docs_to_embed, and every batch handed to the
\* provider is the contents of docs_to_embed; the written snapshot and the
\* published index hold the Document.
C1_ReusedVerbatim ==
    i_scan = "ok" =>
      \A p \in Paths :
        Unchanged(p) =>
          /\ Occurrences(i_docs, RecordOf(i_disk0, p)) = 1
          /\ \A i \in 1..Len(i_docs) :
                i_docs[i].path = p => i_docs[i] = RecordOf(i_disk0, p)
          /\ \A i \in 1..Len(i_to_embed) : i_to_embed[i].path # p
          /\ \A b \in 1..Len(i_batches) :
                /\ Len(i_batches[b]) = Len(i_to_embed)
                /\ \A i \in 1..Len(i_to_embed) : i_batches[b][i] = i_to_embed[i].content
          /\ (i_write = "written" => RecordOf(i_disk0, p) \in Elems(DocsOf(disk)))
          /\ (ipc = "idle" /\ i_out.kind = "ok" => RecordOf(i_disk0, p) \in Elems(CachedDocs))

\* A pass reuses one file's Document while it embeds another file.
C1_Witness ==
    /\ i_scan = "ok" /\ ipc = "idle" /\ i_out.kind = "ok"
    /\ \E p \in Paths : Unchanged(p)
    /\ Len(i_batches) = 1

\* C2: after a pass that scanned and returned Ok, neither the snapshot file
\* nor cached_index holds a document whose path is not a file of the scanned
\* folder.
C2_DeletedFilesDropped ==
    (ipc = "idle" /\ i_scan = "ok" /\ i_out.kind = "ok") =>
      \A d \in Elems(DocsOf(disk)) \cup Elems(CachedDocs) :
         d.path \in Paths /\ Present(i_fs0, d.path)

\* C3: a successful pass that follows a successful pass over the same folder
\* calls the provider not at all, builds the same documents, and leaves the
\* same documents in the snapshot file and in cached_index.
SameDocs(a, b) == Len(a) = Len(b) /\ Elems(a) = Elems(b)
SecondPassNoChange ==
    /\ ipc = "idle"
    /\ i_out.kind = "ok" /\ i_scan = "ok"
    /\ prev.out.kind = "ok" /\ prev.scan = "ok"
    /\ i_fs0 = prev.fs0
C3_Idempotent ==
    SecondPassNoChange =>
      /\ i_batches = <<>>
      /\ SameDocs(i_docs, prev.docs)
      /\ SameDocs(DocsOf(disk), DocsOf(i_disk0))
      /\ SameDocs(CachedDocs, IF i_cache0.some THEN i_cache0.val.documents ELSE <<>>)
      /\ (i_docs # <<>> => SameDocs(DocsOf(disk), i_docs) /\ SameDocs(CachedDocs, i_docs))

\* The first pass embedded a file and the second pass found nothing changed.
C3_Witness ==
    /\ SecondPassNoChange
    /\ i_docs # <<>>
    /\ \E i \in 1..Len(i_docs) : i_docs[i].id < next_id /\ i_docs[i].id >= 1

(* ======================= properties of the queries ====================== *)
\* The reference list of a query: the documents that meet the threshold, by
\* descending score, equal scores in index order, cut at max_results.
RefScore(index, qv, i) == cosine_similarity(qv, index.documents[i].embedding)
RefEligible(index, qv, min) ==
    {i \in 1..Len(index.documents) : RefScore(index, qv, i) >= min}
RefAhead(index, qv, j, i) ==
    \/ RefScore(index, qv, j) > RefScore(index, qv, i)
    \/ RefScore(index, qv, j) = RefScore(index, qv, i) /\ j < i
RefRank(index, qv, min, i) ==
    Cardinality({j \in RefEligible(index, qv, min) : RefAhead(index, qv, j, i)})
RefList(index, qv, max, min) ==
    [k \in 1..Min(max, Cardinality(RefEligible(index, qv, min))) |->
        index.documents[CHOOSE i \in RefEligible(index, qv, min) :
                            RefRank(index, qv, min, i) = k - 1].content]

Scored(q) == qpc[q] = "done" /\ q_reply[q] = "ok"

\* C4: a query that scored a cached index returns the contents of the first
\* max_results entries of the reference list; its scores do not increase,
\* each is at least min_score, there are at most max_results of them, and the
\* first is the highest among the documents that meet the threshold.
C4_QueryRanking ==
    \A q \in Queries :
      Scored(q) =>
        LET index == q_index[q].val
            qv == Embed(q_text[q])
            got == q_scores[q]
        IN /\ q_out[q] = Ok(RefList(index, qv, max_results, min_score))
           /\ q_out[q].val = ContentsOf(got)
           /\ Len(got) <= max_results
           /\ \A k \in 1..Len(got) :
                 /\ got[k].score >= min_score
                 /\ got[k].score = cosine_similarity(qv, got[k].doc.embedding)
                 /\ got[k].doc \in Elems(index.documents)
           /\ \A k \in 1..(Len(got) - 1) : got[k].score >= got[k + 1].score
           /\ (RefEligible(index, qv, min_score) # {} =>
                 /\ Len(got) >= 1
                 /\ \A i \in RefEligible(index, qv, min_score) :
                       got[1].score >= RefScore(index, qv, i))

\* A query cut its list at max_results, with two equal scores at its head.
C4_Witness ==
    \E q \in Queries :
      /\ Scored(q)
      /\ Cardinality(RefEligible(q_index[q].val, Embed(q_text[q]), min_score)) > max_results
      /\ Len(q_scores[q]) >= 2
      /\ q_scores[q][1].score = q_scores[q][2].score

\* C5: a query that started after the pass that published the current index
\* completed, with no later publish, reads that index behind its read guard.
C5_QueryAfterPassSeesIt ==
    \A q \in Queries :
      (qpc[q] = "done" /\ q_pub0[q] > 0 /\ pub.n = q_pub0[q]) =>
         q_index[q] = Some(pub.index)

\* C6: while a query holds its read guard cached_index is the value it found
\* behind the guard, and all it scores and returns comes from that one value.
C6_SingleCacheValue ==
    \A q \in Queries :
      /\ qpc[q] = "embed" =>
            /\ q \in readers
            /\ q_index[q].some
            /\ cached_index = q_index[q]
      /\ Scored(q) =>
            /\ q_index[q].some
            /\ q_scores[q] = Ranked(q_index[q].val, Embed(q_text[q]), max_results, min_score)
            /\ \A k \in 1..Len(q_scores[q]) :
                  q_scores[q][k].doc \in Elems(q_index[q].val.documents)

\* A query holds its read guard on the old index while the pass waits to publish.
C6_Witness ==
    \E q \in Queries :
      /\ qpc[q] = "embed"
      /\ ipc = "publish"
      /\ cached_index # Some(RagIndex(i_docs))

\* C7: a pass whose embed call failed has returned an error, has not touched
\* the snapshot file and has left cached_index as it found it; and a written
\* or published index holds a document for every reused and every
\* needs-embedding file of its pass.
Covers(docs) ==
    /\ Len(docs) = Len(i_final) + Len(i_to_embed)
    /\ {docs[i].path : i \in 1..Len(docs)} =
          {i_final[i].path : i \in 1..Len(i_final)} \cup
          {i_to_embed[i].path : i \in 1..Len(i_to_embed)}
C7_EmbedFailureWritesNothing ==
    /\ i_reply = "err" =>
          /\ ipc = "idle"
          /\ i_out.kind = "err"
          /\ i_write = "none"
          /\ disk = i_disk0
          /\ cached_index = i_cache0
    /\ i_write = "written" => i_reply # "err" /\ Covers(DocsOf(disk))
    /\ (ipc = "idle" /\ i_write = "written") => i_out.kind = "ok" /\ Covers(CachedDocs)

\* The embed call of a later pass fails: a snapshot and a cached index exist
\* and the pass had documents to reuse.
C7_Witness ==
    /\ i_reply = "err"
    /\ i_disk0.kind = "json"
    /\ i_cache0.some
    /\ i_final # <<>>

\* C8: with the feature disabled or the engine not operational every
\* ingest() returns Ok(0) and every query() returns Ok(empty list), the
\* provider is never called, no step changes the snapshot file or
\* cached_index, and is_operational and init_error keep their values.
C8_GatedState ==
    (~is_operational \/ ~enabled) =>
      /\ ipc = "idle"
      /\ i_out \in {NotReturned, Ok(0)}
      /\ i_batches = <<>> /\ i_reply = "none" /\ i_write = "none"
      /\ cached_index = None
      /\ init_error.some = ~is_operational
      /\ \A q \in Queries :
            /\ qpc[q] \in {"idle", "done"}
            /\ q_out[q] \in {QNotReturned, Ok(<<>>)}
            /\ q_embeds[q] = 0
C8_GatedFrame ==
    /\ is_operational' = is_operational
    /\ init_error' = init_error
    /\ (~is_operational \/ ~enabled) => disk' = disk /\ cached_index' = cached_index
C8_GatedNoOps == []C8_GatedState /\ [][C8_GatedFrame]_vars

\* A non-operational engine with a snapshot and files has served calls.
C8_Witness ==
    /\ ~is_operational /\ enabled
    /\ passes > 0
    /\ \A q \in Queries : qpc[q] = "done"
    /\ disk.kind = "json"
    /\ fs # EmptyFolder

\* C9: a pass whose snapshot write failed has returned an error, the file
\* holds what it held before the pass, and cached_index is as the pass found it.
C9_FailedWriteKeepsSnapshot ==
    i_write \in {"open_failed", "failed"} =>
      /\ i_out.kind = "err"
      /\ disk = i_disk0
      /\ cached_index = i_cache0

\* C10: a query whose embed call failed has returned an error, having found
\* a non-empty index behind its read guard; the failing step changes neither
\* cached_index nor the snapshot file.
C10_FailedState ==
    \A q \in Queries :
      q_reply[q] = "err" =>
        /\ qpc[q] = "done"
        /\ q_out[q].kind = "err"
        /\ q_index[q].some /\ q_index[q].val.documents # <<>>
C10_FailedFrame ==
    \A q \in Queries :
      (q_reply[q] # "err" /\ q_reply'[q] = "err") =>
         disk' = disk /\ cached_index' = cached_index
C10_QueryEmbedFailure == []C10_FailedState /\ [][C10_FailedFrame]_vars

\* A query lazily loaded the snapshot and then its embed call failed.
C10_Witness ==
    \E q \in Queries :
      /\ q_reply[q] = "err"
      /\ cache_by = "query"
      /\ cached_index = Some(q_loaded[q])

\* C11: a query that runs alone on an empty cache, over a snapshot file that
\* is missing, unreadable, unparseable or without documents, returns
\* Ok(empty list) and has not called the provider; none of its steps writes
\* the snapshot file, touches the knowledge folder or moves the indexer.
NothingOnDisk == disk.kind # "json" \/ disk.documents = <<>>
C11_State ==
    NothingOnDisk =>
      /\ i_batches = <<>> /\ i_scan = "none" /\ passes = 0
      /\ \A q \in Queries :
            /\ q_embeds[q] = 0 /\ q_reply[q] = "none"
            /\ qpc[q] = "done" => q_out[q] = Ok(<<>>)
C11_Frame == disk' = disk /\ fs' = fs /\ root_exists' = root_exists /\ ivars' = ivars
C11_NothingToLoad == []C11_State /\ [][C11_Frame]_vars

\* A query lazily loaded a snapshot without documents and returned.
C11_Witness ==
    /\ ~Gated
    /\ qpc[1] = "done"
    /\ disk = EmptySnapshot
    /\ cached_index = Some(RagIndex(<<>>))
    /\ q_index[1] = cached_index

(* ================== more properties of the indexer ===================== *)
\* The files of the pass's folder that are new or modified and whose content
\* reads as non-empty.
NeedsEmbedding(p) ==
    /\ Present(i_fs0, p)
    /\ Embeddable(ReadContent(i_fs0[p]))
    /\ ~Unchanged(p)
EntryOf(p) == [path |-> p, content |-> i_fs0[p].content, modified |-> i_fs0[p].mtime]

\* C12: in a pass whose scan succeeded, docs_to_embed holds one entry for
\* each new or modified file with non-empty content, with the file's current
\* content and modification time, and nothing else; no such file is among the
\* reused documents; and once the batch is embedded the new index holds
\* one document for the file, with that content, time and embedding.
C12_NeedsEmbedding ==
    i_scan = "ok" =>
      /\ Len(i_to_embed) = Cardinality({p \in Paths : NeedsEmbedding(p)})
      /\ \A p \in Paths :
            NeedsEmbedding(p) =>
              /\ Occurrences(i_to_embed, EntryOf(p)) = 1
              /\ \A i \in 1..Len(i_to_embed) :
                    i_to_embed[i].path = p => i_to_embed[i] = EntryOf(p)
              /\ \A i \in 1..Len(i_final) : i_final[i].path # p
              /\ i_reply = "ok" =>
                    /\ Len(i_batches) = 1 /\ Len(i_batches[1]) = Len(i_to_embed)
                    /\ Cardinality({i \in 1..Len(i_docs) : i_docs[i].path = p}) = 1
                    /\ \A i \in 1..Len(i_docs) :
                          i_docs[i].path = p =>
                            /\ i_docs[i].content = i_fs0[p].content
                            /\ i_docs[i].last_modified = i_fs0[p].mtime
                            /\ i_docs[i].embedding = Embed(i_fs0[p].content)
                            /\ i_docs[i] \notin Elems(DocsOf(i_disk0))

\* The only indexed file was modified after the first pass, and the second
\* pass embedded that one document again.
C12_Witness ==
    /\ passes = 2 /\ ipc = "idle"
    /\ prev.out = Ok(1) /\ i_out = Ok(1)
    /\ Len(i_to_embed) = 1 /\ i_final = <<>>
    /\ HasRecord(i_disk0, i_to_embed[1].path)
    /\ RecordOf(i_disk0, i_to_embed[1].path).content # i_to_embed[1].content

\* C13: a pass that finds the snapshot file missing, unreadable or
\* unparseable reuses no document; its scan fails only over a file whose
\* metadata cannot be read, and otherwise every scanned file with non-empty
\* content is an entry of docs_to_embed; the pass returns an error only when
\* the scan, the embed call or the snapshot write failed.
NoPreviousIndex == i_scan # "none" /\ i_disk0.kind # "json"
C13_CorruptSnapshotIsEmpty ==
    NoPreviousIndex =>
      /\ i_final = <<>>
      /\ i_scan = "err" => \E p \in Paths : i_fs0[p].status = "nometa"
      /\ i_scan = "ok" =>
            /\ {i_to_embed[i].path : i \in 1..Len(i_to_embed)} =
                  {p \in Paths : Present(i_fs0, p) /\ Embeddable(ReadContent(i_fs0[p]))}
            /\ \A i \in 1..Len(i_to_embed) :
                  i_to_embed[i] = EntryOf(i_to_embed[i].path)
      /\ i_out.kind = "err" =>
            i_scan = "err" \/ i_reply = "err" \/ i_write \in {"open_failed", "failed"}
      /\ (ipc = "idle" /\ i_out.kind = "ok" /\ i_to_embed # <<>>) =>
            /\ i_out = Ok(Len(i_to_embed))
            /\ \A d \in Elems(CachedDocs) : d.id >= 1 /\ d.id < next_id

\* A pass over two files found an unparseable snapshot file and embedded both.
C13_Witness ==
    /\ i_disk0 = Garbage
    /\ i_scan = "ok" /\ ipc = "idle"
    /\ Len(i_to_embed) = 2
    /\ i_out = Ok(2)

\* C14: an operational ingest() that finds no knowledge root creates it and
\* returns Ok(0); a pass whose scan yields nothing to reuse and nothing to
\* embed returns Ok(0); neither calls the provider, writes the snapshot file
\* or changes cached_index; and with no snapshot file every query that has
\* returned has returned Ok(empty list) without calling the provider.
EmptyScan == i_scan = "ok" /\ i_final = <<>> /\ i_to_embed = <<>>
CreatedRoot == ~Gated /\ passes > 0 /\ i_scan = "none"
C14_State ==
    /\ (EmptyScan \/ CreatedRoot) =>
          /\ ipc = "idle"
          /\ i_out = Ok(0)
          /\ i_batches = <<>> /\ i_reply = "none" /\ i_write = "none"
          /\ root_exists
    /\ disk.kind = "absent" =>
          \A q \in Queries :
            /\ q_embeds[q] = 0
            /\ qpc[q] = "done" => q_out[q] = Ok(<<>>)
C14_Frame ==
    (/\ passes' = passes + 1
     /\ ~Gated
     /\ ~root_exists \/ (i_scan' = "ok" /\ i_final' = <<>> /\ i_to_embed' = <<>>)) =>
       /\ i_out' = Ok(0) /\ ipc' = "idle"
       /\ disk' = disk /\ cached_index' = cached_index
       /\ next_id' = next_id
UniquePaths(docs) ==
    \A i, j \in 1..Len(docs) : docs[i].path = docs[j].path => i = j
C15_UniquePaths ==
    /\ i_scan = "ok" => UniquePaths(i_final \o [i \in 1..Len(i_to_embed) |-> i_to_embed[i]])
    /\ i_scan = "ok" => UniquePaths(i_docs)
    /\ i_write = "written" => UniquePaths(DocsOf(disk))
    /\ UniquePaths(pub.index.documents)
    /\ cache_by = "ingest" => UniquePaths(CachedDocs)

\* A pass found a snapshot with two records of a.md, a file that two of the
\* patterns match, and published its index.
C15_Witness ==
    /\ i_disk0 = DupSnapshot
    /\ Present(i_fs0, "a.md")
    /\ Occurrences(GlobAll(i_fs0, 1), "a.md") = 2
    /\ ipc = "idle" /\ i_write = "written"
    /\ pub.n = passes /\ cached_index = Some(pub.index)
    /\ \E i \in 1..Len(CachedDocs) : CachedDocs[i].path = "a.md"

\* C16: every document of a snapshot a pass has written, and of an index a
\* pass has published, has an embedding of the provider's output dimension.
ProviderDim(docs) == \A i \in 1..Len(docs) : Len(docs[i].embedding) = Dim
C16_EmbeddingDimension ==
    /\ i_write = "written" => ProviderDim(DocsOf(disk))
    /\ ProviderDim(pub.index.documents)

(* =================== properties of the shared cache ==================== *)
\* C17: the step in which a query's lazy load stores its index finds
\* cached_index None, or else leaves it as it is.
LazyWriteStep == \E q \in Queries : qpc[q] = "lazy_write" /\ qpc'[q] = "read"
C17_LazyLoadWritesOnce ==
    [][LazyWriteStep => (~cached_index.some \/ cached_index' = cached_index)]_vars

\* C18: with no ingest() and no query() in flight, an index held by
\* cached_index is the index the snapshot file stores; stated for the
\* behaviours in which no snapshot write has failed.
Quiescent == ipc = "idle" /\ \A q \in Queries : qpc[q] \in {"idle", "done"}
C18_CacheEqualsDisk ==
    (Quiescent /\ cached_index.some /\ i_write \in {"none", "written"}) =>
       /\ disk.kind = "json"
       /\ cached_index.val = RagIndex(disk.documents)

\* C19: a pass asks for the write lock only with its snapshot completely
\* written, the file then holding the index it built; a pass whose write did
\* not complete has published nothing; and every step that changes
\* cached_index is a query's lazy-load write or the publishing step of a
\* pass, which stores, whole, the index the snapshot file holds.
Persisted == i_write = "written" /\ disk = Serialize(RagIndex(i_docs))
PublishStep == ipc = "locked" /\ ipc' = "idle"
C19_State ==
    /\ ipc \in {"publish", "locked"} => Persisted
    /\ i_write # "written" => pub.n < passes \/ passes = 0
    /\ (ipc = "idle" /\ i_write = "written") =>
          /\ pub = [n |-> passes, index |-> RagIndex(i_docs)]
          /\ ReadIndexFile(disk) = Some(pub.index)
          /\ i_out = Ok(Len(i_docs))
C19_Frame ==
    /\ (cached_index' # cached_index \/ pub' # pub) => LazyWriteStep \/ PublishStep
    /\ PublishStep =>
          /\ Persisted
          /\ disk' = disk
          /\ cached_index' = ReadIndexFile(disk)
          /\ pub'.index = cached_index'.val
C19_PublishAfterPersist == []C19_State /\ [][C19_Frame]_vars

\* A pass replaced an index that a query's lazy load had stored by the index
\* it had just written.
C19_Witness ==
    /\ ipc = "idle" /\ i_write = "written"
    /\ i_cache0 = None
    /\ \E q \in Queries : qpc[q] = "done" /\ q_index[q].some /\ q_index[q] # cached_index
    /\ cached_index = Some(RagIndex(i_docs))
    /\ i_batches # <<>>

\* C20: ingest() holds the write lock only with its scan, its embed call and
\* its snapshot write behind it, and its next step replaces the value and
\* drops the lock; no other step of a pass changes cached_index; and while a
\* pass embeds or writes, a query that asks for the read lock gets it.
Working == ipc \in {"embed", "write", "write_all"}
C20_State ==
    /\ WriteLocked =>
          /\ i_scan = "ok"
          /\ i_to_embed # <<>> => i_reply = "ok"
          /\ i_write = "written"
          /\ ENABLED IngestPublish
    /\ Working =>
          \A q \in Queries :
            /\ (CanBegin(q) /\ ~Gated) => ENABLED QueryCheck(q)
            /\ qpc[q] = "read" => ENABLED QueryRead(q)
C20_Frame ==
    /\ (WriteLocked /\ ivars' # ivars) =>
          ~WriteLocked' /\ ipc' = "idle" /\ cached_index' = Some(RagIndex(i_docs))
    /\ (~WriteLocked /\ ipc' # ipc) => cached_index' = cached_index
    /\ (~WriteLocked /\ WriteLocked') => ipc = "publish" /\ readers = {}
C20_WriteLockTiming == []C20_State /\ [][C20_Frame]_vars

\* The pass found cached_index None and is writing the snapshot; since it
\* began, a query has taken the read lock, scored a lazily loaded index and
\* returned.
C20_Witness ==
    /\ ipc = "write_all"
    /\ i_cache0 = None
    /\ \E q \in Queries : Scored(q) /\ q_index[q].some /\ cache_by = "query"

(* =================== properties of the queries' locks ================== *)
\* C21: a query that is reading the snapshot file, or that is in its embed
\* call, holds no lock of cached_index.
C21_NoLockDuringIO ==
    \A q \in Queries : qpc[q] \in {"load", "embed"} => q \notin readers

\* C22: under fair scheduling every query that has begun returns; while a
\* query is in flight some task can take a step; and a query that asks for
\* the write lock holds no read guard.
InFlight(q) == qpc[q] \notin {"idle", "done"}
C22_QueriesReturn ==
    /\ \A q \in Queries : InFlight(q) ~> (qpc[q] = "done")
    /\ []((\E q \in Queries : InFlight(q)) => ENABLED Next)
    /\ [](\A q \in Queries : qpc[q] = "lazy_write" => q \notin readers)

\* A query waits for the write lock of its lazy load while another query
\* holds the read lock and the pass waits to publish.
C22_Witness ==
    /\ qpc[1] = "lazy_write"
    /\ readers = {2}
    /\ ipc = "publish"

(* ================== the indexer: errors, frame, batches ================= *)
\* C23: a scan never ends in an error over one file: every pass that scans,
\* also over a file whose content or metadata cannot be read, ends its scan
\* with the readable, non-empty files among the reused documents or in
\* docs_to_embed.
C23_PerFileErrorsSkipped ==
    i_scan # "none" =>
      /\ i_scan = "ok"
      /\ \A p \in Paths :
            (i_fs0[p].status = "ok" /\ Embeddable(i_fs0[p].content)) =>
               \/ \E i \in 1..Len(i_final) : i_final[i].path = p
               \/ \E i \in 1..Len(i_to_embed) : i_to_embed[i].path = p

\* C24: after a pass that scanned nothing to reuse and nothing to embed, or
\* that created the knowledge root, the snapshot file is what the pass
\* found, cached_index is what the pass found unless a query's lazy load has
\* since stored the file's index, and every query that scores, scores the
\* documents of that file and returns the best of them.
C24_NoOpPassFrame ==
    (EmptyScan \/ CreatedRoot) =>
      /\ disk = i_disk0
      /\ cached_index \in {i_cache0, ReadIndexFile(i_disk0)}
      /\ cached_index # i_cache0 => cache_by = "query"
      /\ pub.n = 0
      /\ \A q \in Queries :
            /\ Scored(q) =>
                  /\ q_index[q] = ReadIndexFile(i_disk0)
                  /\ q_out[q] = Ok(RefList(RagIndex(DocsOf(i_disk0)), Embed(q_text[q]),
                                           max_results, min_score))
            /\ (qpc[q] = "done" /\ DocsOf(i_disk0) # <<>>) =>
                  Scored(q) \/ q_reply[q] = "err"

\* A pass over an emptied folder found the cache empty and left the snapshot
\* of an earlier run in place; a query has since returned its documents.
C24_Witness ==
    /\ EmptyScan /\ ipc = "idle"
    /\ i_cache0 = None
    /\ disk = FullSnapshot
    /\ \E q \in Queries : Scored(q) /\ q_out[q].val # <<>>

\* C25: a pass hands the provider at most one batch: none unless its scan
\* found files to embed, and otherwise, once past the embed call, exactly
\* one, holding the contents of docs_to_embed in order and nothing else.
C25_OneEmbedCall ==
    /\ Len(i_batches) <= 1
    /\ (i_scan # "ok" \/ i_to_embed = <<>>) => i_batches = <<>> /\ i_reply = "none"
    /\ ipc = "embed" => i_batches = <<>> /\ i_to_embed # <<>>
    /\ (i_scan = "ok" /\ i_to_embed # <<>> /\ ipc # "embed") =>
          /\ Len(i_batches) = 1
          /\ i_batches[1] = [i \in 1..Len(i_to_embed) |-> i_to_embed[i].content]
          /\ i_reply # "none"

\* A pass embedded two files of different contents in one batch.
C25_Witness ==
    /\ i_reply = "ok"
    /\ Len(i_batches) = 1 /\ Len(i_batches[1]) = 2
    /\ i_batches[1][1] # i_batches[1][2]

\* C26: after a successful pass the published index and the snapshot hold
\* the reused documents followed by one document per entry of
\* docs_to_embed, in order, each with the entry's path, content and
\* timestamp and the provider's vector for that content; no other document
\* has the entry's path; and the pass returned the number of documents.
Succeeded == ipc = "idle" /\ i_scan = "ok" /\ i_write = "written" /\ i_out.kind = "ok"
C26_PairedByPosition ==
    Succeeded =>
      /\ Len(CachedDocs) = Len(i_final) + Len(i_to_embed)
      /\ i_out = Ok(Len(i_final) + Len(i_to_embed))
      /\ DocsOf(disk) = CachedDocs
      /\ SubSeq(CachedDocs, 1, Len(i_final)) = i_final
      /\ \A k \in 1..Len(i_to_embed) :
            LET d == CachedDocs[Len(i_final) + k]
                e == i_to_embed[k]
            IN /\ d.path = e.path
               /\ d.content = e.content
               /\ d.last_modified = e.modified
               /\ d.embedding = Embed(e.content)
               /\ Cardinality({i \in 1..Len(CachedDocs) : CachedDocs[i].path = e.path}) = 1

\* A successful pass reused one document and embedded another.
C26_Witness ==
    /\ Succeeded
    /\ i_final # <<>> /\ i_to_embed # <<>>
    /\ i_out = Ok(2)

\* C27: the documents a pass has newly embedded have ids that differ from
\* one another, from the ids of the reused documents and from every id of the
\* snapshot the pass found; the ids of a written snapshot and of a published
\* index are pairwise distinct.
UniqueIds(docs) == \A i, j \in 1..Len(docs) : docs[i].id = docs[j].id => i = j
C27_FreshIds ==
    /\ (i_scan = "ok" /\ i_reply = "ok") =>
          \A i \in (Len(i_final) + 1)..Len(i_docs) :
            /\ \A d \in Elems(DocsOf(i_disk0)) : d.id # i_docs[i].id
            /\ \A j \in 1..Len(i_docs) : i_docs[j].id = i_docs[i].id => j = i
    /\ i_write = "written" => UniqueIds(DocsOf(disk))
    /\ UniqueIds(pub.index.documents)

\* A file that an earlier pass of this run embedded was modified, and the
\* next pass gave its new document another id.
C27_Witness ==
    /\ Succeeded /\ i_reply = "ok" /\ passes = 2
    /\ \E i \in (Len(i_final) + 1)..Len(i_docs) :
          /\ HasRecord(i_disk0, i_docs[i].path)
          /\ RecordOf(i_disk0, i_docs[i].path).id < i_docs[i].id

\* C28 as stated: of the documents this run has embedded, each has non-empty
\* content, and none in the index a pass builds belongs to a file whose
\* content now reads empty, whitespace-only or not at all.
NonEmpty(content) == Trim(content) # ""
ReadsEmpty(p) == Present(i_fs0, p) /\ ~NonEmpty(ReadContent(i_fs0[p]))
InNewIndex(p) == \E i \in 1..Len(i_docs) : i_docs[i].path = p /\ i_docs[i].id < next_id
C28_NoEmptyFileIndexed ==
    i_scan = "ok" =>
      /\ \A d \in Elems(i_docs) : d.id < next_id => NonEmpty(d.content)
      /\ \A p \in Paths : ReadsEmpty(p) => ~InNewIndex(p)

\* C28, amended: a pass that finds only non-empty contents in the snapshot
\* builds only documents of non-empty content; every document this run has
\* embedded that is in the snapshot file or in cached_index has non-empty
\* content; and a file that now reads empty is no entry of docs_to_embed and
\* has a document in the new index only as a reused one, its modification
\* time being the stored last_modified.
C28_NonEmptyContent ==
    /\ (i_scan = "ok" /\ \A d \in Elems(DocsOf(i_disk0)) : NonEmpty(d.content)) =>
          \A d \in Elems(i_docs) : NonEmpty(d.content)
    /\ \A d \in Elems(DocsOf(disk)) \cup Elems(CachedDocs) :
          d.id < next_id => NonEmpty(d.content)
    /\ i_scan = "ok" =>
          \A p \in Paths :
            ReadsEmpty(p) =>
              /\ \A i \in 1..Len(i_to_embed) : i_to_embed[i].path # p
              /\ \A i \in 1..Len(i_docs) :
                    i_docs[i].path = p => Unchanged(p) /\ i_docs[i] = RecordOf(i_disk0, p)

\* A file that the first pass indexed was emptied, with a new modification
\* time, and the second pass left it out of the index it published.
C28_Witness ==
    /\ Succeeded /\ passes = 2
    /\ \E p \in Paths :
          /\ ReadsEmpty(p)
          /\ HasRecord(i_disk0, p) /\ RecordOf(i_disk0, p).id < next_id
          /\ ~InNewIndex(p)

\* C29: no step takes cached_index from Some back to None; a step that
\* changes it is a lazy-load write or a publish and stores a Some; and the
\* step in which an ingest() call returns without publishing, or in which a
\* query() call returns, leaves it unchanged.
IngestReturnsStep == ivars' # ivars /\ ipc' = "idle" /\ ~PublishStep
QueryReturnsStep == \E q \in Queries : qpc[q] # "done" /\ qpc'[q] = "done"
C29_Frame ==
    /\ cached_index.some => cached_index'.some
    /\ cached_index' # cached_index =>
          cached_index'.some /\ (LazyWriteStep \/ PublishStep)
    /\ (IngestReturnsStep \/ QueryReturnsStep) => cached_index' = cached_index
C29_CacheNeverCleared == [][C29_Frame]_vars

\* A pass that found an index in the cache failed, a query's embed call
\* failed, and the index is still cached.
C29_Witness ==
    /\ i_cache0.some
    /\ ipc = "idle" /\ i_out.kind = "err"
    /\ \E q \in Queries : q_out[q].kind = "err"
    /\ cached_index = i_cache0

\* C30: a score computed against a vector of zero magnitude, the empty
\* vector included, is 0; every other score is the dot product over the
\* product of the norms, whose divisor is not zero; and a document whose
\* embedding has zero magnitude is returned only when min_score <= 0.
ZeroMagnitude(v) == \A k \in 1..Len(v) : v[k] = 0
CosineOf(a, b) == TDiv(DotFrom(a, b, 1) * Scale * Scale * Scale, Norm(a) * Norm(b))
C30_ZeroMagnitude ==
    \A q \in Queries :
      Scored(q) =>
        LET qv == Embed(q_text[q])
            docs == q_index[q].val.documents
            got == q_scores[q]
        IN /\ \A i \in 1..Len(docs) :
                 LET e == docs[i].embedding
                     s == Scores(q_index[q].val, qv)[i].score
                 IN IF ZeroMagnitude(qv) \/ ZeroMagnitude(e)
                    THEN s = 0
                    ELSE Norm(qv) * Norm(e) # 0 /\ s = CosineOf(qv, e)
           /\ \A k \in 1..Len(got) :
                 (ZeroMagnitude(qv) \/ ZeroMagnitude(got[k].doc.embedding)) =>
                    got[k].score = 0 /\ min_score <= 0

\* A query returned a document whose embedding is empty and one whose
\* embedding is the zero vector, next to one it scored by the quotient.
C30_Witness ==
    \E q \in Queries :
      /\ Scored(q)
      /\ min_score = 0
      /\ \E k \in 1..Len(q_scores[q]) : q_scores[q][k].doc.embedding = <<>>
      /\ \E k \in 1..Len(q_scores[q]) : q_scores[q][k].doc.embedding = <<0, 0>>
      /\ \E k \in 1..Len(q_scores[q]) : q_scores[q][k].score > 0

====
